---- MODULE Spec2Model ----
(***************************************************************************)
(* Model of geozero-core/src/wkb_writer.rs: the streaming EWKB writer       *)
(* WkbWriter and its GeomProcessor callbacks.                               *)
(*                                                                          *)
(* Bytes are integers 0..255.  A 32-bit or 64-bit value is kept as the      *)
(* tuple of its bytes, most significant first, so that the flag bits        *)
(* 0x80000000 / 0x40000000 / 0x20000000 and the value of a usize keep       *)
(* their width; writing a value in an endianness orders that tuple.         *)
(***************************************************************************)
EXTENDS Integers, Sequences, FiniteSets, TLC

\* ------------------------------------------------------------------ bounds
\* number of callbacks an arbitrary caller issues (driver "free")
MaxCalls == 2
\* coordinates of a line or ring of a traversed geometry (driver "walk")
MaxPts == 1
\* rings of a polygon, elements of a multi-geometry or collection (driver "walk")
MaxElems == 2

\* ---------------------------------------------------------------- encoding
None == <<>>
Some(v) == <<v>>
IsSome(o) == o # <<>>

Rev(s) == [i \in 1..Len(s) |-> s[Len(s) + 1 - i]]

\* the bytes of a value in the byte order e, from its bytes most significant first
ToEndian(msb, e) == IF e = "BE" THEN msb ELSE Rev(msb)

\* the four bytes, most significant first, of n as u32 (0 <= n < 2^31) or as
\* i32 in two's complement (-2^31 <= n < 0): \div rounds down, % is non-negative
Bytes32(n) ==
    << (n \div 16777216) % 256, (n \div 65536) % 256, (n \div 256) % 256, n % 256 >>

RECURSIVE Or8(_, _)
Or8(a, b) ==
    IF a = 0 THEN b
    ELSE IF b = 0 THEN a
    ELSE (IF a % 2 = 1 \/ b % 2 = 1 THEN 1 ELSE 0) + 2 * Or8(a \div 2, b \div 2)

\* bitwise or of two u32
BitOr32(a, b) == [i \in 1..4 |-> Or8(a[i], b[i])]

FLAG_Z == << 128, 0, 0, 0 >>
FLAG_M == << 64, 0, 0, 0 >>
FLAG_SRID == << 32, 0, 0, 0 >>

NDR == 1
XDR == 0

WKBGeometryType ==
    [ Point |-> 1, LineString |-> 2, Polygon |-> 3, MultiPoint |-> 4,
      MultiLineString |-> 5, MultiPolygon |-> 6, GeometryCollection |-> 7,
      CircularString |-> 8, CompoundCurve |-> 9, CurvePolygon |-> 10,
      MultiCurve |-> 11, MultiSurface |-> 12, PolyhedralSurface |-> 15,
      Tin |-> 16, Triangle |-> 17 ]

\* a usize: eight bytes, most significant first
USize(n) == << 0, 0, 0, 0 >> \o Bytes32(n)
\* 2^32 + 2
BigSize == << 0, 0, 0, 1, 0, 0, 0, 2 >>
\* a conversion to u32 that saturates at u32::MAX
AsU32_saturating(size) ==
    IF SubSeq(size, 1, 4) = << 0, 0, 0, 0 >> THEN SubSeq(size, 5, 8)
    ELSE << 255, 255, 255, 255 >>

\* size as u32: the low 32 bits
AsU32(size) == SubSeq(size, 5, 8)

\* f64 values by their IEEE-754 bits, most significant byte first
F64_10 == << 64, 36, 0, 0, 0, 0, 0, 0 >>
F64_m20 == << 192, 52, 0, 0, 0, 0, 0, 0 >>
F64_100 == << 64, 89, 0, 0, 0, 0, 0, 0 >>
F64_101 == << 64, 89, 64, 0, 0, 0, 0, 0 >>

\* ------------------------------------------------------------------- state
VARIABLES
    dims,           \* WkbWriter.dims: [z, m], declared dimensionality
    srid,           \* WkbWriter.srid: Option<i32>
    endian,         \* WkbWriter.endian: "LE" or "BE"
    first_header,   \* WkbWriter.first_header
    geom_state,     \* WkbWriter.geom_state: "Normal", "RingGeom", "MultiPointGeom"
    out,            \* the bytes the sink holds
    hdrs,           \* history: offsets in out of the headers written so far
    last,           \* the last callback: its name, arguments and result
    ncalls,         \* callbacks issued so far
    nfails,         \* sink writes that failed so far
    driver,         \* who calls: "free" (any caller) or "walk" (a geometry reader)
    geom,           \* walk: the geometry being traversed
    src,            \* walk: byte order, flags and SRID of the EWKB input
    todo            \* walk: the callbacks still to come

vars == << dims, srid, endian, first_header, geom_state, out,
           hdrs, last, ncalls, nfails, driver, geom, src, todo >>

\* ------------------------------------------------------------------- sink
\* SinkWrite that goes on writing after a failed write
SinkWrite_no_return(w, bytes) ==
    IF w.fail_in = 1
    THEN [w EXCEPT !.err = TRUE, !.fail_in = 0, !.faults = @ + 1]
    ELSE [w EXCEPT !.out = @ \o bytes,
                   !.fail_in = IF @ = 0 THEN 0 ELSE @ - 1]

\* SinkWrite that writes from the start of the sink, over what it holds
SinkWrite_from_start(w, bytes) ==
    IF w.err THEN w
    ELSE IF w.fail_in = 1
    THEN [w EXCEPT !.err = TRUE, !.fail_in = 0, !.faults = @ + 1]
    ELSE [w EXCEPT !.out = bytes \o SubSeq(@, Len(bytes) + 1, Len(@)),
                   !.fail_in = IF @ = 0 THEN 0 ELSE @ - 1]

\* One write of the byte sink (std::io::Write behind scroll's IOwrite): it
\* appends all the bytes, or fails and appends none.  w.fail_in counts down to
\* the write of this call that fails (0: none does) and w.faults counts the
\* writes the sink has failed.  Once w.err is set the callback has returned
\* through `?', so later writes of the call do nothing.
SinkWrite(w, bytes) ==
    IF w.err THEN w
    ELSE IF w.fail_in = 1
    THEN [w EXCEPT !.err = TRUE, !.fail_in = 0, !.faults = @ + 1]
    ELSE [w EXCEPT !.out = @ \o bytes,
                   !.fail_in = IF @ = 0 THEN 0 ELSE @ - 1]

iowrite(w, byte) == SinkWrite(w, << byte >>)

\* iowrite_with that ignores the byte order: most significant byte first
iowrite_with_msb_first(w, msb, ctx) == SinkWrite(w, msb)

iowrite_with(w, msb, ctx) == SinkWrite(w, ToEndian(msb, ctx))

\* ----------------------------------------------------------------- headers
\* write_ewkb_header with the SRID flag and value in every header
write_ewkb_header_srid_always(w, wkb_type) ==
    LET byte_order == IF w.endian = "BE" THEN XDR ELSE NDR
        w1 == iowrite(w, byte_order)
        t0 == Bytes32(WKBGeometryType[wkb_type])
        t1 == IF w.dims.z THEN BitOr32(t0, FLAG_Z) ELSE t0
        t2 == IF w.dims.m THEN BitOr32(t1, FLAG_M) ELSE t1
        type_id == IF IsSome(w.srid) THEN BitOr32(t2, FLAG_SRID) ELSE t2
        w2 == iowrite_with(w1, type_id, w.endian)
        w3 == IF w2.err THEN w2 ELSE [w2 EXCEPT !.hdrs = Append(@, Len(w.out))]
        w4 == IF IsSome(w3.srid)
              THEN iowrite_with(w3, Bytes32(w3.srid[1]), w3.endian) ELSE w3
    IN  IF w4.err THEN w4 ELSE [w4 EXCEPT !.first_header = FALSE]

\* write_ewkb_header with the M flag taken from dims.z
write_ewkb_header_m_from_z(w, wkb_type) ==
    LET byte_order == IF w.endian = "BE" THEN XDR ELSE NDR
        w1 == iowrite(w, byte_order)
        t0 == Bytes32(WKBGeometryType[wkb_type])
        t1 == IF w.dims.z THEN BitOr32(t0, FLAG_Z) ELSE t0
        t2 == IF w.dims.z THEN BitOr32(t1, FLAG_M) ELSE t1
        type_id == IF IsSome(w.srid) /\ w.first_header
                   THEN BitOr32(t2, FLAG_SRID) ELSE t2
        w2 == iowrite_with(w1, type_id, w.endian)
        w3 == IF w2.err THEN w2 ELSE [w2 EXCEPT !.hdrs = Append(@, Len(w.out))]
        w4 == IF w3.first_header /\ IsSome(w3.srid)
              THEN iowrite_with(w3, Bytes32(w3.srid[1]), w3.endian) ELSE w3
    IN  IF w4.err THEN w4
        ELSE IF w4.first_header THEN [w4 EXCEPT !.first_header = FALSE]
        ELSE w4

\* write_ewkb_header that clears first_header only where it writes the SRID
write_ewkb_header_clears_with_srid(w, wkb_type) ==
    LET byte_order == IF w.endian = "BE" THEN XDR ELSE NDR
        w1 == iowrite(w, byte_order)
        t0 == Bytes32(WKBGeometryType[wkb_type])
        t1 == IF w.dims.z THEN BitOr32(t0, FLAG_Z) ELSE t0
        t2 == IF w.dims.m THEN BitOr32(t1, FLAG_M) ELSE t1
        type_id == IF IsSome(w.srid) /\ w.first_header
                   THEN BitOr32(t2, FLAG_SRID) ELSE t2
        w2 == iowrite_with(w1, type_id, w.endian)
        w3 == IF w2.err THEN w2 ELSE [w2 EXCEPT !.hdrs = Append(@, Len(w.out))]
        w4 == IF w3.first_header /\ IsSome(w3.srid)
              THEN iowrite_with(w3, Bytes32(w3.srid[1]), w3.endian) ELSE w3
    IN  IF w4.err THEN w4
        ELSE IF w4.first_header /\ IsSome(w4.srid)
        THEN [w4 EXCEPT !.first_header = FALSE]
        ELSE w4

\* write_ewkb_header that takes the SRID out of the writer as it writes it
write_ewkb_header_takes_srid(w, wkb_type) ==
    LET byte_order == IF w.endian = "BE" THEN XDR ELSE NDR
        w1 == iowrite(w, byte_order)
        t0 == Bytes32(WKBGeometryType[wkb_type])
        t1 == IF w.dims.z THEN BitOr32(t0, FLAG_Z) ELSE t0
        t2 == IF w.dims.m THEN BitOr32(t1, FLAG_M) ELSE t1
        type_id == IF IsSome(w.srid) /\ w.first_header
                   THEN BitOr32(t2, FLAG_SRID) ELSE t2
        w2 == iowrite_with(w1, type_id, w.endian)
        w3 == IF w2.err THEN w2 ELSE [w2 EXCEPT !.hdrs = Append(@, Len(w.out))]
        w4 == IF w3.first_header /\ IsSome(w3.srid)
              THEN iowrite_with(w3, Bytes32(w3.srid[1]), w3.endian) ELSE w3
    IN  IF w4.err THEN w4
        ELSE IF w4.first_header
        THEN [w4 EXCEPT !.first_header = FALSE, !.srid = None]
        ELSE w4

\* write_ewkb_header that sets the SRID flag in every header when an SRID is
\* configured, and writes the value in the first only
write_ewkb_header_flag_always(w, wkb_type) ==
    LET byte_order == IF w.endian = "BE" THEN XDR ELSE NDR
        w1 == iowrite(w, byte_order)
        t0 == Bytes32(WKBGeometryType[wkb_type])
        t1 == IF w.dims.z THEN BitOr32(t0, FLAG_Z) ELSE t0
        t2 == IF w.dims.m THEN BitOr32(t1, FLAG_M) ELSE t1
        type_id == IF IsSome(w.srid) THEN BitOr32(t2, FLAG_SRID) ELSE t2
        w2 == iowrite_with(w1, type_id, w.endian)
        w3 == IF w2.err THEN w2 ELSE [w2 EXCEPT !.hdrs = Append(@, Len(w.out))]
        w4 == IF w3.first_header /\ IsSome(w3.srid)
              THEN iowrite_with(w3, Bytes32(w3.srid[1]), w3.endian) ELSE w3
    IN  IF w4.err THEN w4
        ELSE IF w4.first_header THEN [w4 EXCEPT !.first_header = FALSE]
        ELSE w4

write_ewkb_header(w, wkb_type) ==
    LET byte_order == IF w.endian = "BE" THEN XDR ELSE NDR
        w1 == iowrite(w, byte_order)
        t0 == Bytes32(WKBGeometryType[wkb_type])
        t1 == IF w.dims.z THEN BitOr32(t0, FLAG_Z) ELSE t0
        t2 == IF w.dims.m THEN BitOr32(t1, FLAG_M) ELSE t1
        type_id == IF IsSome(w.srid) /\ w.first_header
                   THEN BitOr32(t2, FLAG_SRID) ELSE t2
        w2 == iowrite_with(w1, type_id, w.endian)
        \* history: a header (tag and type code) now starts at this offset
        w3 == IF w2.err THEN w2 ELSE [w2 EXCEPT !.hdrs = Append(@, Len(w.out))]
        w4 == IF w3.first_header /\ IsSome(w3.srid)
              THEN iowrite_with(w3, Bytes32(w3.srid[1]), w3.endian) ELSE w3
    IN  IF w4.err THEN w4
        ELSE IF w4.first_header THEN [w4 EXCEPT !.first_header = FALSE]
        ELSE w4

write_header(w, wkb_type) == write_ewkb_header(w, wkb_type)

\* --------------------------------------------------------------- callbacks
\* xy that never writes a Point header
xy_untagged(w, x, y) ==
    iowrite_with(iowrite_with(w, x, w.endian), y, w.endian)

xy(w, x, y) ==
    LET w1 == IF w.geom_state = "MultiPointGeom" THEN write_header(w, "Point") ELSE w
        w2 == iowrite_with(w1, x, w.endian)
    IN  iowrite_with(w2, y, w.endian)

\* coordinate that writes z and m only when they are declared
coordinate_as_declared(w, x, y, z, m) ==
    LET w1 == IF w.geom_state = "MultiPointGeom" THEN write_header(w, "Point") ELSE w
        w2 == iowrite_with(w1, x, w.endian)
        w3 == iowrite_with(w2, y, w.endian)
        w4 == IF IsSome(z) /\ w.dims.z THEN iowrite_with(w3, z[1], w.endian) ELSE w3
    IN  IF IsSome(m) /\ w.dims.m THEN iowrite_with(w4, m[1], w.endian) ELSE w4

coordinate(w, x, y, z, m) ==
    LET w1 == IF w.geom_state = "MultiPointGeom" THEN write_header(w, "Point") ELSE w
        w2 == iowrite_with(w1, x, w.endian)
        w3 == iowrite_with(w2, y, w.endian)
        w4 == IF IsSome(z) THEN iowrite_with(w3, z[1], w.endian) ELSE w3
    IN  IF IsSome(m) THEN iowrite_with(w4, m[1], w.endian) ELSE w4

point_begin(w) == write_header(w, "Point")

\* multipoint_begin that enters MultiPoint mode before it writes
multipoint_begin_mode_first(w, size) ==
    LET w0 == [w EXCEPT !.geom_state = "MultiPointGeom"]
    IN  iowrite_with(write_header(w0, "MultiPoint"), AsU32(size), w.endian)

multipoint_begin(w, size) ==
    LET w2 == iowrite_with(write_header(w, "MultiPoint"), AsU32(size), w.endian)
    IN  IF w2.err THEN w2 ELSE [w2 EXCEPT !.geom_state = "MultiPointGeom"]

\* multipoint_end that writes a closing zero count
multipoint_end_writes_count(w) ==
    [iowrite_with(w, << 0, 0, 0, 0 >>, w.endian) EXCEPT !.geom_state = "Normal"]

\* multipoint_end that leaves the nesting mode alone
multipoint_end_keeps_mode(w) == w

multipoint_end(w) == [w EXCEPT !.geom_state = "Normal"]

\* linestring_begin that writes a header in every mode
linestring_begin_tagged(w, size) ==
    iowrite_with(write_header(w, "LineString"), AsU32(size), w.endian)

linestring_begin(w, size) ==
    LET w1 == IF w.geom_state # "RingGeom" THEN write_header(w, "LineString") ELSE w
    IN  iowrite_with(w1, AsU32(size), w.endian)

multilinestring_begin(w, size) == iowrite_with(write_header(w, "MultiLineString"), AsU32(size), w.endian)

\* polygon_begin that writes no count for a polygon without rings
polygon_begin_skips_empty(w, size) ==
    LET w1 == write_header(w, "Polygon")
        w2 == IF AsU32(size) = << 0, 0, 0, 0 >> THEN w1
              ELSE iowrite_with(w1, AsU32(size), w.endian)
    IN  IF w2.err THEN w2 ELSE [w2 EXCEPT !.geom_state = "RingGeom"]

polygon_begin(w, size) ==
    LET w2 == iowrite_with(write_header(w, "Polygon"), AsU32(size), w.endian)
    IN  IF w2.err THEN w2 ELSE [w2 EXCEPT !.geom_state = "RingGeom"]

\* polygon_end that leaves the nesting mode alone
polygon_end_keeps_mode(w) == w

polygon_end(w) == [w EXCEPT !.geom_state = "Normal"]

multipolygon_begin(w, size) == iowrite_with(write_header(w, "MultiPolygon"), AsU32(size), w.endian)

geometrycollection_begin(w, size) == iowrite_with(write_header(w, "GeometryCollection"), AsU32(size), w.endian)

circularstring_begin(w, size) == iowrite_with(write_header(w, "CircularString"), AsU32(size), w.endian)

compoundcurve_begin(w, size) == iowrite_with(write_header(w, "CompoundCurve"), AsU32(size), w.endian)

\* curvepolygon_begin with the type code of a Polygon
curvepolygon_begin_as_polygon(w, size) ==
    iowrite_with(write_header(w, "Polygon"), AsU32(size), w.endian)

curvepolygon_begin(w, size) == iowrite_with(write_header(w, "CurvePolygon"), AsU32(size), w.endian)

multicurve_begin(w, size) == iowrite_with(write_header(w, "MultiCurve"), AsU32(size), w.endian)

multisurface_begin(w, size) == iowrite_with(write_header(w, "MultiSurface"), AsU32(size), w.endian)

\* triangle_begin that leaves the nesting mode alone
triangle_begin_keeps_mode(w, size) ==
    iowrite_with(write_header(w, "Triangle"), AsU32(size), w.endian)

\* triangle_begin that enters ring mode before it writes
triangle_begin_mode_first(w, size) ==
    LET w0 == [w EXCEPT !.geom_state = "RingGeom"]
    IN  iowrite_with(write_header(w0, "Triangle"), AsU32(size), w.endian)

triangle_begin(w, size) ==
    LET w2 == iowrite_with(write_header(w, "Triangle"), AsU32(size), w.endian)
    IN  IF w2.err THEN w2 ELSE [w2 EXCEPT !.geom_state = "RingGeom"]

triangle_end(w) == [w EXCEPT !.geom_state = "Normal"]

polyhedralsurface_begin(w, size) == iowrite_with(write_header(w, "PolyhedralSurface"), AsU32(size), w.endian)

tin_begin(w, size) == iowrite_with(write_header(w, "Tin"), AsU32(size), w.endian)

\* the callbacks WkbWriter does not override: the traits' defaults return Ok(())
default_callback(w) == w

\* ------------------------------------------------------- traversed geometries
\* A geometry: its kind, the number of its coordinates (Point, LineString,
\* CircularString, MultiPoint) and its parts (rings or sub-geometries).
G(kind, npts, parts) == [kind |-> kind, npts |-> npts, parts |-> parts]

SeqsUpTo(S, n) == UNION { [1..k -> S] : k \in 0..n }

Lines(kind) == { G(kind, n, << >>) : n \in 0..MaxPts }

\* the sub-geometries the collections below are built from
LineOf == G("LineString", MaxPts, << >>)
ArcOf == G("CircularString", MaxPts, << >>)
PointOf == G("Point", 1, << >>)
PolygonOf == G("Polygon", 0, << LineOf >>)
TriangleOf == G("Triangle", 0, << LineOf >>)
CompoundOf == G("CompoundCurve", 0, << ArcOf, LineOf >>)
CurvePolygonOf == G("CurvePolygon", 0, << CompoundOf >>)
MultiPointOf == G("MultiPoint", 2, << >>)
MultiPolygonOf == G("MultiPolygon", 0, << PolygonOf, PolygonOf >>)

Collections(kind, children) ==
    { G(kind, 0, ps) : ps \in SeqsUpTo(children, MaxElems) }

Geoms ==
    {PointOf}
    \cup Lines("LineString") \cup Lines("CircularString")
    \cup { G("MultiPoint", n, << >>) : n \in 0..MaxElems }
    \cup Collections("Polygon", Lines("LineString"))
    \cup Collections("Triangle", Lines("LineString"))
    \cup Collections("MultiLineString", Lines("LineString"))
    \cup Collections("MultiPolygon", {PolygonOf, G("Polygon", 0, << >>)})
    \cup Collections("PolyhedralSurface", {PolygonOf})
    \cup Collections("Tin", {TriangleOf})
    \cup Collections("CompoundCurve", {ArcOf, LineOf})
    \cup Collections("CurvePolygon", {ArcOf, LineOf, CompoundOf})
    \cup Collections("MultiCurve", {ArcOf, LineOf, CompoundOf})
    \cup Collections("MultiSurface", {PolygonOf, CurvePolygonOf})
    \cup Collections("GeometryCollection",
                     {PointOf, LineOf, PolygonOf, MultiPointOf, TriangleOf,
                      MultiPolygonOf})

NoGeom == G("None", 0, << >>)

\* ----------------------------------------------------------------- callers
\* A call: the callback, its arguments (element count, z and m of a
\* coordinate), its result, and for a walk the kind of the geometry whose
\* traversal issues it directly ("None" for the outermost begin and end).
Call(op, size, z, m, parent) ==
    [op |-> op, size |-> size, z |-> z, m |-> m, parent |-> parent, ok |-> TRUE]

BeginOf ==
    [ Point |-> "point_begin", LineString |-> "linestring_begin",
      Polygon |-> "polygon_begin", MultiPoint |-> "multipoint_begin",
      MultiLineString |-> "multilinestring_begin",
      MultiPolygon |-> "multipolygon_begin",
      GeometryCollection |-> "geometrycollection_begin",
      CircularString |-> "circularstring_begin",
      CompoundCurve |-> "compoundcurve_begin",
      CurvePolygon |-> "curvepolygon_begin", MultiCurve |-> "multicurve_begin",
      MultiSurface |-> "multisurface_begin",
      PolyhedralSurface |-> "polyhedralsurface_begin", Tin |-> "tin_begin",
      Triangle |-> "triangle_begin" ]

EndOf ==
    [ Point |-> "point_end", LineString |-> "linestring_end",
      Polygon |-> "polygon_end", MultiPoint |-> "multipoint_end",
      MultiLineString |-> "multilinestring_end",
      MultiPolygon |-> "multipolygon_end",
      GeometryCollection |-> "geometrycollection_end",
      CircularString |-> "circularstring_end",
      CompoundCurve |-> "compoundcurve_end",
      CurvePolygon |-> "curvepolygon_end", MultiCurve |-> "multicurve_end",
      MultiSurface |-> "multisurface_end",
      PolyhedralSurface |-> "polyhedralsurface_end", Tin |-> "tin_end",
      Triangle |-> "triangle_end" ]

\* the end callbacks WkbWriter leaves to the trait's default
DefaultEnds ==
    { EndOf[k] : k \in DOMAIN EndOf } \ {"polygon_end", "multipoint_end", "triangle_end"}

\* the default end callbacks an arbitrary caller is given to call
FreeEnds == { "point_end", "linestring_end", "geometrycollection_end" }

\* the feature- and property-level callbacks: WkbWriter implements
\* FeatureProcessor and PropertyProcessor with empty bodies
UnusedCallbacks ==
    { "dataset_begin", "dataset_end", "feature_begin", "feature_end",
      "properties_begin", "properties_end", "geometry_begin", "geometry_end",
      "property" }

\* the callbacks of the traits' defaults an arbitrary caller is given to call
FreeDefaults == FreeEnds \cup { "feature_end", "property" }

RECURSIVE Flat(_)
Flat(ss) == IF ss = << >> THEN << >> ELSE Head(ss) \o Flat(Tail(ss))

\* The callback for one coordinate of an input whose header declares s.z, s.m:
\* the reader passes z and m as the input has them, through coordinate if the
\* processor declares a Z or M dimension and through xy otherwise.
CoordCall(s, d, parent) ==
    IF d.z \/ d.m
    THEN Call("coordinate", None,
              IF s.z THEN Some(F64_100) ELSE None,
              IF s.m THEN Some(F64_101) ELSE None, parent)
    ELSE Call("xy", None, None, None, parent)

\* The callbacks a reader issues for geometry g: begin, the coordinates or the
\* parts in order, end.
RECURSIVE Traverse(_, _, _, _)
Traverse(g, s, d, parent) ==
    LET coords == [i \in 1..g.npts |-> CoordCall(s, d, g.kind)]
        end == << Call(EndOf[g.kind], None, None, None, parent) >>
    IN  CASE g.kind = "Point" ->
               << Call("point_begin", None, None, None, parent) >> \o coords \o end
          [] g.kind \in {"LineString", "CircularString", "MultiPoint"} ->
               << Call(BeginOf[g.kind], USize(g.npts), None, None, parent) >>
               \o coords \o end
          [] OTHER ->
               << Call(BeginOf[g.kind], USize(Len(g.parts)), None, None, parent) >>
               \o Flat([i \in 1..Len(g.parts) |-> Traverse(g.parts[i], s, d, g.kind)])
               \o end

\* ------------------------------------------------------ reference encoding
\* The EWKB wire format of the specification (external interfaces, wire
\* format table), written out field by field for a geometry g and the
\* settings s of the encoder: byte order, Z, M, SRID.
RefInt32(n, e) ==
    IF e = "BE"
    THEN << (n \div 16777216) % 256, (n \div 65536) % 256, (n \div 256) % 256, n % 256 >>
    ELSE << n % 256, (n \div 256) % 256, (n \div 65536) % 256, (n \div 16777216) % 256 >>

RefType(kind, s, top) ==
    LET flags == (IF s.z THEN 128 ELSE 0) + (IF s.m THEN 64 ELSE 0)
                 + (IF top /\ IsSome(s.srid) THEN 32 ELSE 0)
        code == WKBGeometryType[kind]
    IN  IF s.endian = "BE" THEN << flags, 0, 0, code >> ELSE << code, 0, 0, flags >>

RefHeader(kind, s, top) ==
    << IF s.endian = "BE" THEN 0 ELSE 1 >> \o RefType(kind, s, top)
    \o (IF top /\ IsSome(s.srid) THEN RefInt32(s.srid[1], s.endian) ELSE << >>)

RefF64(v, e) == IF e = "BE" THEN v ELSE Rev(v)

RefCoord(s) ==
    RefF64(F64_10, s.endian) \o RefF64(F64_m20, s.endian)
    \o (IF s.z THEN RefF64(F64_100, s.endian) ELSE << >>)
    \o (IF s.m THEN RefF64(F64_101, s.endian) ELSE << >>)

RefCoords(n, s) == Flat([i \in 1..n |-> RefCoord(s)])

RECURSIVE RefEncode(_, _, _)
RefEncode(g, s, top) ==
    RefHeader(g.kind, s, top) \o
    CASE g.kind = "Point" -> RefCoord(s)
      [] g.kind \in {"LineString", "CircularString"} ->
           RefInt32(g.npts, s.endian) \o RefCoords(g.npts, s)
      [] g.kind = "MultiPoint" ->
           RefInt32(g.npts, s.endian)
           \o Flat([i \in 1..g.npts |-> RefHeader("Point", s, FALSE) \o RefCoord(s)])
      [] g.kind \in {"Polygon", "Triangle"} ->
           RefInt32(Len(g.parts), s.endian)
           \o Flat([i \in 1..Len(g.parts) |->
                      RefInt32(g.parts[i].npts, s.endian)
                      \o RefCoords(g.parts[i].npts, s)])
      [] OTHER ->
           RefInt32(Len(g.parts), s.endian)
           \o Flat([i \in 1..Len(g.parts) |-> RefEncode(g.parts[i], s, FALSE)])

\* ------------------------------------------------------------------- inputs
Srids == { None, Some(4326) }

\* the element count an arbitrary caller passes: one that does not fit 32 bits
\* (a walk passes the counts 0..MaxElems of its geometry)
Sizes == { BigSize }

\* the most sink writes one callback makes: tag, type code, SRID, x, y, z, m
MaxWrites == 7

Settings == [endian : {"LE", "BE"}, z : BOOLEAN, m : BOOLEAN, srid : Srids]

NoSettings == [endian |-> "LE", z |-> FALSE, m |-> FALSE, srid |-> None]

\* the calls an arbitrary caller can make of callback op
FreeCalls(op) ==
    IF op = "coordinate"
    THEN { Call(op, None, z, m, "None") :
             z \in {None, Some(F64_100)}, m \in {None, Some(F64_101)} }
    ELSE IF op \in { BeginOf[k] : k \in DOMAIN BeginOf } \ {"point_begin"}
    THEN { Call(op, size, None, None, "None") : size \in Sizes }
    ELSE { Call(op, None, None, None, "None") }

\* the calls of callback op the driver can make in this state
Calls(op) ==
    IF driver = "free"
    THEN IF ncalls < MaxCalls /\ op \notin (DefaultEnds \cup UnusedCallbacks) \ FreeDefaults
         THEN FreeCalls(op) ELSE {}
    ELSE IF todo # << >> /\ Head(todo).op = op THEN {Head(todo)} ELSE {}

\* which sink write of the call fails (0: none).  The sink of an arbitrary
\* caller suffers one transient failure at most and works again afterwards; a
\* Vec<u8>, the sink of a walk, never fails.
FailPoints ==
    IF driver = "free" /\ nfails = 0 THEN 0..MaxWrites ELSE {0}

\* the writer as the callback finds it
Start(f) ==
    [ dims |-> dims, srid |-> srid, endian |-> endian,
      first_header |-> first_header, geom_state |-> geom_state, out |-> out,
      hdrs |-> hdrs, fail_in |-> f, faults |-> 0, err |-> FALSE ]

\* the writer as the callback leaves it, and the result it returns
Commit(w, c) ==
    /\ dims' = w.dims
    /\ srid' = w.srid
    /\ endian' = w.endian
    /\ first_header' = w.first_header
    /\ geom_state' = w.geom_state
    /\ out' = w.out
    /\ hdrs' = w.hdrs
    /\ last' = [c EXCEPT !.ok = ~w.err]
    /\ ncalls' = ncalls + 1
    /\ nfails' = nfails + w.faults
    /\ todo' = IF driver = "walk" THEN Tail(todo) ELSE todo
    /\ UNCHANGED << driver, geom, src >>

\* --------------------------------------------------------------------- init
\* WkbWriter::new, then the public fields dims and srid set by the caller
InitWriter(z, m, s) ==
    /\ dims = [z |-> z, m |-> m]
    /\ endian = "LE"
    /\ srid = s
    /\ first_header = TRUE
    /\ geom_state = "Normal"
    /\ out = << >>
    /\ hdrs = << >>
    /\ last = Call("new", None, None, None, "None")
    /\ ncalls = 0
    /\ nfails = 0

Init ==
    /\ \E z \in BOOLEAN, m \in BOOLEAN, s \in Srids : InitWriter(z, m, s)
    /\ driver = "free"
    /\ geom = NoGeom
    /\ src = NoSettings
    /\ todo = << >>

\* a reader walks the EWKB encoding of a geometry; the writer is configured
\* with the input's Z flag and SRID, and with its M flag or none
InitWalk ==
    /\ driver = "walk"
    /\ geom \in Geoms
    /\ src \in Settings
    /\ \E m \in {src.m, FALSE} : InitWriter(src.z, m, src.srid)
    /\ todo = Traverse(geom, src, dims, "None")

\* ------------------------------------------------------------------ actions
Call_xy ==
    \E c \in Calls("xy"), f \in FailPoints :
        Commit(xy(Start(f), F64_10, F64_m20), c)

Call_coordinate ==
    \E c \in Calls("coordinate"), f \in FailPoints :
        Commit(coordinate(Start(f), F64_10, F64_m20, c.z, c.m), c)

Call_point_begin ==
    \E c \in Calls("point_begin"), f \in FailPoints :
        Commit(point_begin(Start(f)), c)

Call_multipoint_begin ==
    \E c \in Calls("multipoint_begin"), f \in FailPoints :
        Commit(multipoint_begin(Start(f), c.size), c)

Call_multipoint_end ==
    \E c \in Calls("multipoint_end") : Commit(multipoint_end(Start(0)), c)

Call_linestring_begin ==
    \E c \in Calls("linestring_begin"), f \in FailPoints :
        Commit(linestring_begin(Start(f), c.size), c)

Call_multilinestring_begin ==
    \E c \in Calls("multilinestring_begin"), f \in FailPoints :
        Commit(multilinestring_begin(Start(f), c.size), c)

Call_polygon_begin ==
    \E c \in Calls("polygon_begin"), f \in FailPoints :
        Commit(polygon_begin(Start(f), c.size), c)

Call_polygon_end ==
    \E c \in Calls("polygon_end") : Commit(polygon_end(Start(0)), c)

Call_multipolygon_begin ==
    \E c \in Calls("multipolygon_begin"), f \in FailPoints :
        Commit(multipolygon_begin(Start(f), c.size), c)

Call_geometrycollection_begin ==
    \E c \in Calls("geometrycollection_begin"), f \in FailPoints :
        Commit(geometrycollection_begin(Start(f), c.size), c)

Call_circularstring_begin ==
    \E c \in Calls("circularstring_begin"), f \in FailPoints :
        Commit(circularstring_begin(Start(f), c.size), c)

Call_compoundcurve_begin ==
    \E c \in Calls("compoundcurve_begin"), f \in FailPoints :
        Commit(compoundcurve_begin(Start(f), c.size), c)

Call_curvepolygon_begin ==
    \E c \in Calls("curvepolygon_begin"), f \in FailPoints :
        Commit(curvepolygon_begin(Start(f), c.size), c)

Call_multicurve_begin ==
    \E c \in Calls("multicurve_begin"), f \in FailPoints :
        Commit(multicurve_begin(Start(f), c.size), c)

Call_multisurface_begin ==
    \E c \in Calls("multisurface_begin"), f \in FailPoints :
        Commit(multisurface_begin(Start(f), c.size), c)

Call_triangle_begin ==
    \E c \in Calls("triangle_begin"), f \in FailPoints :
        Commit(triangle_begin(Start(f), c.size), c)

Call_triangle_end ==
    \E c \in Calls("triangle_end") : Commit(triangle_end(Start(0)), c)

Call_polyhedralsurface_begin ==
    \E c \in Calls("polyhedralsurface_begin"), f \in FailPoints :
        Commit(polyhedralsurface_begin(Start(f), c.size), c)

Call_tin_begin ==
    \E c \in Calls("tin_begin"), f \in FailPoints :
        Commit(tin_begin(Start(f), c.size), c)

Call_default_end ==
    \E op \in DefaultEnds \cup UnusedCallbacks :
        \E c \in Calls(op) : Commit(default_callback(Start(0)), c)

Next ==
    \/ Call_xy
    \/ Call_coordinate
    \/ Call_point_begin
    \/ Call_multipoint_begin
    \/ Call_multipoint_end
    \/ Call_linestring_begin
    \/ Call_multilinestring_begin
    \/ Call_polygon_begin
    \/ Call_polygon_end
    \/ Call_multipolygon_begin
    \/ Call_geometrycollection_begin
    \/ Call_circularstring_begin
    \/ Call_compoundcurve_begin
    \/ Call_curvepolygon_begin
    \/ Call_multicurve_begin
    \/ Call_multisurface_begin
    \/ Call_triangle_begin
    \/ Call_triangle_end
    \/ Call_polyhedralsurface_begin
    \/ Call_tin_begin
    \/ Call_default_end

\* any caller, any order of callbacks, a sink that can fail
Spec == Init /\ [][Next]_vars

\* a reader traversing one geometry into a Vec<u8>
SpecWalk == InitWalk /\ [][Next]_vars

\* both callers
SpecAll == (Init \/ InitWalk) /\ [][Next]_vars

\* ------------------------------------------------------------ observations
\* the settings of the writer, as the reference encoding takes them
Cfg == [endian |-> endian, z |-> dims.z, m |-> dims.m, srid |-> srid]

Bit(byte, v) == (byte \div v) % 2 = 1

\* the most significant byte of the type code of the header at offset p
FlagsByte(p) == IF endian = "BE" THEN out[p + 2] ELSE out[p + 5]

\* up to n bytes of the output after the tag and type code of the header at p
AfterHeader(p, n) ==
    SubSeq(out, p + 6, IF p + 5 + n <= Len(out) THEN p + 5 + n ELSE Len(out))

WalkDone == driver = "walk" /\ todo = << >>

\* the element count as the wire format has it: the low 32 bits of the size
RefCount(size, e) ==
    IF e = "BE" THEN << size[5], size[6], size[7], size[8] >>
    ELSE << size[8], size[7], size[6], size[5] >>

\* the header the wire format asks of the writer in this state
Hdr(kind) == RefHeader(kind, Cfg, first_header)

\* the coordinate values of call c on the wire: x, y, then z and m if supplied
CoordBytes(c) ==
    RefF64(F64_10, endian) \o RefF64(F64_m20, endian)
    \o (IF IsSome(c.z) THEN RefF64(c.z[1], endian) ELSE << >>)
    \o (IF IsSome(c.m) THEN RefF64(c.m[1], endian) ELSE << >>)

CoordOps == { "xy", "coordinate" }
ModeEnds == { "polygon_end", "triangle_end", "multipoint_end" }
SizedBegins == { BeginOf[k] : k \in DOMAIN BeginOf } \ {"point_begin"}
KindOf(op) == CHOOSE k \in DOMAIN BeginOf : BeginOf[k] = op

\* the bytes call c appends to the sink of the writer in this state when
\* every write succeeds
ExpectedOut(c) ==
    IF c.op = "point_begin" THEN Hdr("Point")
    ELSE IF c.op = "linestring_begin" /\ geom_state = "RingGeom"
    THEN RefCount(c.size, endian)
    ELSE IF c.op \in SizedBegins THEN Hdr(KindOf(c.op)) \o RefCount(c.size, endian)
    ELSE IF c.op \in CoordOps
    THEN (IF geom_state = "MultiPointGeom" THEN Hdr("Point") ELSE << >>)
         \o CoordBytes(c)
    ELSE << >>

Suffix(s, n) == SubSeq(s, Len(s) - n + 1, Len(s))

MultiKinds ==
    { "GeometryCollection", "MultiPoint", "MultiLineString", "MultiPolygon",
      "MultiCurve", "MultiSurface" }

\* -------------------------------------------------------------------- claims
\* C1: with an SRID configured, in the output of a traversal the SRID flag bit
\* (0x20000000) is set in the first header, which starts the output and is
\* followed by the SRID value, and in no later header; no later header is
\* followed by the SRID value.
C1_SridOnlyInFirstHeader ==
    (driver = "walk" /\ IsSome(srid)) =>
        \A i \in 1..Len(hdrs) :
            /\ Bit(FlagsByte(hdrs[i]), 32) <=> (i = 1)
            /\ i = 1 => /\ hdrs[i] = 0
                        /\ AfterHeader(hdrs[i], 4) = RefInt32(srid[1], endian)
            /\ i > 1 => AfterHeader(hdrs[i], 4) # RefInt32(srid[1], endian)

\* a finished traversal of a collection or multi-geometry of two or more
\* sub-geometries, with an SRID, that wrote three or more headers
C1_Witness ==
    /\ WalkDone /\ IsSome(srid)
    /\ geom.kind \in MultiKinds
    /\ (Len(geom.parts) >= 2 \/ geom.npts >= 2)
    /\ Len(hdrs) >= 3

\* C2 as stated: a finished traversal of the EWKB encoding b of a geometry,
\* into a writer with the Z setting and SRID of b, leaves b in the sink.
C2_RoundTripAnyInput ==
    WalkDone => out = RefEncode(geom, src, TRUE)

\* C2 as amended: a finished traversal of the little-endian (NDR) EWKB
\* encoding b of a geometry, into a writer with the Z and M settings and the
\* SRID of b, leaves b in the sink.
C2_RoundTripNDR ==
    (WalkDone /\ src.endian = "LE" /\ dims.m = src.m) =>
        out = RefEncode(geom, src, TRUE)

\* a finished round trip of a little-endian collection holding a polygon
C2_Witness ==
    /\ WalkDone /\ src.endian = "LE" /\ dims.m = src.m
    /\ geom.kind = "GeometryCollection"
    /\ \E i \in 1..Len(geom.parts) : geom.parts[i].kind = "Polygon"
    /\ out = RefEncode(geom, src, TRUE)

\* C3: every header written (outer headers, sub-geometry headers and the
\* Point headers of a MultiPoint) has bit 31 (0x80000000) set if and only if
\* Z is declared and bit 30 (0x40000000) set if and only if M is declared.
C3_DimensionFlags ==
    \A i \in 1..Len(hdrs) :
        /\ Bit(FlagsByte(hdrs[i]), 128) <=> dims.z
        /\ Bit(FlagsByte(hdrs[i]), 64) <=> dims.m

\* a Point header written inside a MultiPoint with Z declared and M not
C3_Witness ==
    /\ dims.z /\ ~dims.m
    /\ geom_state = "MultiPointGeom"
    /\ last.op = "coordinate" /\ last.ok
    /\ Len(hdrs) >= 2

\* C4: in a traversal, the linestring_begin of a ring (issued between the
\* begin and end of a Polygon or Triangle) appends the element count and no
\* header; any other linestring_begin appends a LineString header and the
\* count; polygon_begin and triangle_begin write one header, and the
\* traversal of a Polygon or Triangle writes one header whatever the number
\* of its rings.
C4_RingStep ==
    /\ last'.op = "linestring_begin" =>
         IF last'.parent \in {"Polygon", "Triangle"}
         THEN out' = out \o RefCount(last'.size, endian) /\ hdrs' = hdrs
         ELSE /\ out' = out \o Hdr("LineString") \o RefCount(last'.size, endian)
              /\ hdrs' = Append(hdrs, Len(out))
    /\ last'.op \in {"polygon_begin", "triangle_begin"} =>
         hdrs' = Append(hdrs, Len(out))

C4_RingSuppression ==
    /\ [][C4_RingStep]_vars
    /\ []((WalkDone /\ geom.kind \in {"Polygon", "Triangle"}) => Len(hdrs) = 1)

\* a LineString that follows a Polygon in a collection: the ring wrote no
\* header, the LineString after polygon_end wrote the third one
C4_Witness ==
    /\ driver = "walk"
    /\ geom.kind = "GeometryCollection" /\ Len(geom.parts) = 2
    /\ geom.parts[1] = PolygonOf /\ geom.parts[2] = LineOf
    /\ last.op = "linestring_begin" /\ last.parent = "GeometryCollection"
    /\ Len(hdrs) = 3

\* C5: in a traversal, a coordinate callback (xy or coordinate) of a
\* MultiPoint appends a Point header (tag and Point type code, no count, no
\* SRID) and then the coordinate values; a coordinate callback of any other
\* geometry appends the values only; the traversal of a MultiPoint of count 0
\* writes its header and count and no Point header.
C5_CoordStep ==
    last'.op \in CoordOps =>
        out' = out
               \o (IF last'.parent = "MultiPoint"
                   THEN RefHeader("Point", Cfg, FALSE) ELSE << >>)
               \o CoordBytes(last')

C5_MultipointTagging ==
    /\ [][C5_CoordStep]_vars
    /\ []((WalkDone /\ geom.kind = "MultiPoint" /\ geom.npts = 0) =>
            /\ out = RefHeader("MultiPoint", Cfg, TRUE) \o << 0, 0, 0, 0 >>
            /\ Len(hdrs) = 1)

\* the second point of a MultiPoint has been written
C5_Witness ==
    /\ driver = "walk" /\ geom.kind = "MultiPoint"
    /\ last.op \in CoordOps /\ last.parent = "MultiPoint"
    /\ Len(hdrs) = 3

\* C6: the mode is Normal on construction; a successful polygon_begin or
\* triangle_begin sets it to RingGeom, a successful multipoint_begin to
\* MultiPointGeom, polygon_end, triangle_end and multipoint_end to Normal, and
\* no other callback changes it; after a finished traversal it is Normal.
C6_ModeStep ==
    IF last'.op \in {"polygon_begin", "triangle_begin"}
    THEN last'.ok => geom_state' = "RingGeom"
    ELSE IF last'.op = "multipoint_begin"
    THEN last'.ok => geom_state' = "MultiPointGeom"
    ELSE IF last'.op \in ModeEnds THEN geom_state' = "Normal"
    ELSE geom_state' = geom_state

C6_NestingStateMachine ==
    /\ [](ncalls = 0 => geom_state = "Normal")
    /\ [][C6_ModeStep]_vars
    /\ [](WalkDone => geom_state = "Normal")

\* a finished traversal of a collection whose last part is a polygon
C6_Witness ==
    /\ WalkDone /\ geom_state = "Normal"
    /\ geom.kind = "GeometryCollection" /\ Len(geom.parts) = 2
    /\ geom.parts[2] = PolygonOf

\* C7: a successful begin callback of a container kind (linestring_begin
\* outside ring mode) appends the header of that kind and then the element
\* count in four bytes; a successful point_begin appends a Point header only.
C7_BeginStep ==
    /\ (/\ last'.op \in SizedBegins /\ last'.ok
        /\ ~(last'.op = "linestring_begin" /\ geom_state = "RingGeom")) =>
           out' = out \o Hdr(KindOf(last'.op)) \o RefCount(last'.size, endian)
    /\ (last'.op = "point_begin" /\ last'.ok) => out' = out \o Hdr("Point")

C7_BeginWritesHeaderThenCount == [][C7_BeginStep]_vars

\* curvepolygon_begin has written its header and count after another container
C7_Witness ==
    /\ last.op = "curvepolygon_begin" /\ last.ok
    /\ Len(hdrs) = 2 /\ Len(out) >= 18

\* C8: the byte order of a writer is little-endian and never changes; every
\* header starts with the tag of that byte order; the type code, the SRID,
\* the element count and the coordinate values are written in that order.
C8_FieldStep ==
    /\ endian' = endian
    /\ hdrs' # hdrs =>
         LET p == hdrs'[Len(hdrs')]
             kind == IF last'.op \in CoordOps THEN "Point" ELSE KindOf(last'.op)
         IN  /\ SubSeq(out', p + 2, p + 5) = RefType(kind, Cfg, first_header)
             /\ (first_header /\ IsSome(srid) /\ Len(out') >= p + 9) =>
                  SubSeq(out', p + 6, p + 9) = RefInt32(srid[1], endian)
    /\ (last'.op \in SizedBegins /\ last'.ok) =>
         Suffix(out', 4) = RefCount(last'.size, endian)
    /\ (last'.op \in CoordOps /\ last'.ok) =>
         Suffix(out', Len(CoordBytes(last'))) = CoordBytes(last')

C8_ByteOrder ==
    /\ [](endian = "LE")
    /\ [](\A i \in 1..Len(hdrs) :
            out[hdrs[i] + 1] = (IF endian = "BE" THEN XDR ELSE NDR))
    /\ [][C8_FieldStep]_vars

\* a first Point header with an SRID, then a coordinate with z and m
C8_Witness ==
    /\ IsSome(srid) /\ hdrs = << 0 >>
    /\ last.op = "coordinate" /\ last.ok /\ IsSome(last.z) /\ IsSome(last.m)
    /\ Len(out) = 41

\* C9: a callback in which a sink write fails returns the failure; what it
\* appended is what it writes before the failing write, a proper prefix of
\* the bytes of the successful call, after the bytes the sink already held.
C9_FailStep ==
    nfails' > nfails =>
        /\ ~last'.ok
        /\ \E k \in 0..(Len(ExpectedOut(last')) - 1) :
               out' = out \o SubSeq(ExpectedOut(last'), 1, k)

C9_ErrorPropagation == [][C9_FailStep]_vars

\* a coordinate of a MultiPoint failed after its Point header was written
C9_Witness ==
    /\ ~last.ok /\ last.op = "coordinate"
    /\ geom_state = "MultiPointGeom"
    /\ Len(hdrs) = 2 /\ Len(out) > hdrs[2] + 5

\* C10: a coordinate callback whose sink writes succeed returns Ok and appends
\* x, y, z if and only if z is supplied, m if and only if m is supplied
\* (after a Point header in MultiPoint mode), whatever dimensions are declared.
C10_CoordinateStep ==
    (last'.op = "coordinate" /\ nfails' = nfails) =>
        /\ last'.ok
        /\ out' = out
                  \o (IF geom_state = "MultiPointGeom" THEN Hdr("Point") ELSE << >>)
                  \o CoordBytes(last')

C10_NoDimensionCheck == [][C10_CoordinateStep]_vars

\* z and m supplied to a writer that declares neither, and written
C10_Witness ==
    /\ ~dims.z /\ ~dims.m
    /\ last.op = "coordinate" /\ last.ok /\ IsSome(last.z) /\ IsSome(last.m)
    /\ Len(out) >= 32

\* C11: the end callbacks other than polygon_end, triangle_end and
\* multipoint_end, and the feature- and property-level callbacks, return Ok,
\* append no bytes and leave the first-header flag and the nesting mode as
\* they were; polygon_end, triangle_end and multipoint_end append no bytes
\* and leave the first-header flag as it was.
C11_NoOpStep ==
    /\ last'.op \in DefaultEnds \cup UnusedCallbacks =>
         /\ last'.ok
         /\ out' = out /\ hdrs' = hdrs
         /\ first_header' = first_header
         /\ geom_state' = geom_state
    /\ last'.op \in ModeEnds =>
         /\ last'.ok
         /\ out' = out /\ hdrs' = hdrs
         /\ first_header' = first_header

C11_EndsAreNoOps == [][C11_NoOpStep]_vars

\* the end of a ring inside a polygon: bytes written, ring mode still on
C11_Witness ==
    /\ last.op = "linestring_end" /\ last.parent = "Polygon"
    /\ geom_state = "RingGeom" /\ ~first_header
    /\ Len(out) >= 13

\* C12: in a traversal, polygon_begin with element count 0 appends one
\* Polygon header and four zero bytes, the polygon_end that follows it appends
\* nothing and leaves the mode Normal; the output of a Polygon without rings
\* is its header and the zero count, nothing else.
C12_EmptyStep ==
    /\ (last'.op = "polygon_begin" /\ last'.size = USize(0)) =>
         /\ out' = out \o Hdr("Polygon") \o << 0, 0, 0, 0 >>
         /\ hdrs' = Append(hdrs, Len(out))
    /\ (last.op = "polygon_begin" /\ last.size = USize(0)) =>
         /\ last'.op = "polygon_end"
         /\ out' = out /\ hdrs' = hdrs
         /\ geom_state' = "Normal"

C12_EmptyPolygon ==
    /\ [][C12_EmptyStep]_vars
    /\ []((WalkDone /\ geom = G("Polygon", 0, << >>)) =>
            /\ out = RefHeader("Polygon", Cfg, TRUE) \o << 0, 0, 0, 0 >>
            /\ Len(hdrs) = 1
            /\ geom_state = "Normal")

\* a finished traversal of a Polygon without rings, with an SRID
C12_Witness ==
    /\ WalkDone /\ geom = G("Polygon", 0, << >>)
    /\ IsSome(srid) /\ last.op = "polygon_end"
    /\ Len(out) = 13 /\ geom_state = "Normal"

\* the headers in the sink whose type code has the SRID flag bit
Flagged == { i \in 1..Len(hdrs) : Bit(FlagsByte(hdrs[i]), 32) }

\* the flagged headers in the sink that the SRID value follows
FlaggedWithValue ==
    { i \in Flagged : AfterHeader(hdrs[i], 4) = RefInt32(srid[1], endian) }

\* this step wrote a header and all of its fields: tag, type code and, for a
\* first header with an SRID configured, the SRID value
HeaderWritten ==
    /\ hdrs' # hdrs
    /\ Len(out') >= hdrs'[Len(hdrs')] + 5
                    + (IF first_header /\ IsSome(srid) THEN 4 ELSE 0)

\* first_header is cleared by a header written successfully, with or without
\* an SRID, and no callback sets it again
C13_FlagStep ==
    /\ HeaderWritten => ~first_header'
    /\ ~first_header => ~first_header'

\* C13 as stated: first_header is true on construction, cleared by the first
\* header written successfully whether or not an SRID is configured, never set
\* again; at most one header of a writer is treated as the first, so at most
\* one header in the sink carries the mark of a first header, the SRID flag.
C13_AtMostOneFirstHeader ==
    /\ [](ncalls = 0 => first_header)
    /\ [][C13_FlagStep]_vars
    /\ [](Cardinality(Flagged) <= 1)

\* C13 as amended: first_header is true on construction, cleared by the first
\* header written successfully whether or not an SRID is configured, never set
\* again; at most one successfully written header is treated as the first
\* (a header whose SRID write fails leaves the flag set).
C13_AtMostOneFirstHeaderWritten ==
    /\ [](ncalls = 0 => first_header)
    /\ [][C13_FlagStep]_vars
    /\ [](IsSome(srid) => Cardinality(FlaggedWithValue) <= 1)
    /\ []((Flagged # {} /\ ~first_header) => FlaggedWithValue # {})

\* without an SRID, two headers written and the flag cleared
C13_Witness ==
    /\ srid = None /\ ~first_header
    /\ Len(hdrs) = 2 /\ last.ok

\* A reference encoder that keeps the enclosing geometries on a stack: a
\* begin pushes its kind, an end pops; a LineString directly inside a Polygon
\* or Triangle gets no header, a coordinate directly inside a MultiPoint gets
\* a Point header.  r is what it has written: the bytes and the header offsets.
RECURSIVE StackedRef(_, _, _, _)
StackedRef(calls, stack, first, r) ==
    IF calls = << >> THEN r
    ELSE
        LET c == Head(calls)
            top == IF stack = << >> THEN "None" ELSE Head(stack)
            isBegin == c.op \in { BeginOf[k] : k \in DOMAIN BeginOf }
            isEnd == c.op \in { EndOf[k] : k \in DOMAIN EndOf }
            kind == IF isBegin THEN KindOf(c.op) ELSE "Point"
            tagged == IF isBegin
                      THEN ~(kind = "LineString" /\ top \in {"Polygon", "Triangle"})
                      ELSE c.op \in CoordOps /\ top = "MultiPoint"
            hdr == IF tagged THEN RefHeader(kind, Cfg, first) ELSE << >>
            body == IF isBegin /\ kind # "Point" THEN RefCount(c.size, endian)
                    ELSE IF c.op \in CoordOps THEN CoordBytes(c)
                    ELSE << >>
            r1 == [ out |-> r.out \o hdr \o body,
                    hdrs |-> IF tagged THEN Append(r.hdrs, Len(r.out)) ELSE r.hdrs ]
            stack1 == IF isBegin THEN << kind >> \o stack
                      ELSE IF isEnd THEN Tail(stack)
                      ELSE stack
        IN  StackedRef(Tail(calls), stack1, first /\ ~tagged, r1)

\* the callbacks of the traversal issued so far
Done ==
    LET all == Traverse(geom, src, dims, "None")
    IN  SubSeq(all, 1, Len(all) - Len(todo))

\* C14: at every point of a traversal the bytes the writer has appended and
\* the places of the headers in them are those of the reference encoder that
\* tracks the enclosing geometries on a stack.
C14_SingleModeSufficient ==
    driver = "walk" =>
        LET r == StackedRef(Done, << >>, TRUE, [out |-> << >>, hdrs |-> << >>])
        IN  out = r.out /\ hdrs = r.hdrs

\* a finished collection of a MultiPolygon (polygons two levels down) and a
\* MultiPoint
C14_Witness ==
    /\ WalkDone /\ geom.kind = "GeometryCollection"
    /\ geom.parts = << MultiPolygonOf, MultiPointOf >>
    /\ Len(hdrs) = 7

\* C15: the sink is empty on construction; every callback leaves the bytes
\* the sink held as a prefix of what it holds afterwards, and a callback that
\* succeeds has appended exactly its own bytes after them, so the sink holds
\* the bytes of the callbacks in call order.
C15_AppendStep ==
    /\ Len(out') >= Len(out)
    /\ SubSeq(out', 1, Len(out)) = out
    /\ last'.ok => out' = out \o ExpectedOut(last')

C15_ForwardOnly ==
    /\ [](ncalls = 0 => out = << >>)
    /\ [][C15_AppendStep]_vars

\* a finished traversal of a MultiLineString of two line strings of one
\* point: eight callbacks, five of which appended bytes
C15_Witness ==
    /\ WalkDone /\ geom.kind = "MultiLineString" /\ Len(geom.parts) = 2
    /\ ncalls >= 8 /\ Len(out) >= 27

\* C16: no callback changes the byte order, the declared dimensions or the
\* SRID of the writer; of the writer's fields a callback changes only
\* first_header, geom_state and the sink.
C16_ConfigStep ==
    /\ endian' = endian
    /\ dims' = dims
    /\ srid' = srid

C16_ConfigUnchanged == [][C16_ConfigStep]_vars

\* after the first header with its SRID and a change of mode, the SRID and
\* the Z declaration are still those configured
C16_Witness ==
    /\ IsSome(srid) /\ dims.z /\ ~first_header
    /\ geom_state = "MultiPointGeom"
    /\ Len(hdrs) >= 2 /\ last.ok

IsPrefix(a, b) == Len(a) <= Len(b) /\ a = SubSeq(b, 1, Len(a))

\* the bytes call c writes after its header, if it writes one: the element
\* count of a begin, the values of a coordinate
BodyBytes(c) ==
    IF c.op \in SizedBegins THEN RefCount(c.size, endian)
    ELSE IF c.op \in CoordOps THEN CoordBytes(c)
    ELSE << >>

\* The header this step has put in the sink has the SRID flag bit if and only
\* if the SRID value follows its type code: with the flag, the next four
\* bytes are the SRID and the call's own bytes come after them; without it,
\* the call's own bytes come right after the type code.
FlagIffValue ==
    LET p == hdrs'[Len(hdrs')]
        flags == IF endian = "BE" THEN out'[p + 2] ELSE out'[p + 5]
        rest == SubSeq(out', p + 6, Len(out'))
    IN  IF Bit(flags, 32)
        THEN /\ IsSome(srid)
             /\ Len(rest) >= 4
             /\ SubSeq(rest, 1, 4) = RefInt32(srid[1], endian)
             /\ IsPrefix(SubSeq(rest, 5, Len(rest)), BodyBytes(last'))
        ELSE IsPrefix(rest, BodyBytes(last'))

\* C17 as stated: every header the writer puts in the sink has the SRID flag
\* bit if and only if the 4-byte SRID value follows its type code.
C17_SridFlagIffValue == [][hdrs' # hdrs => FlagIffValue]_vars

\* C17 as amended: every header the writer writes completely has the SRID
\* flag bit if and only if the 4-byte SRID value follows its type code (when
\* the write of the SRID value fails, the type code with the flag stays in
\* the sink without the value).
C17_SridFlagIffValueWritten == [][HeaderWritten => FlagIffValue]_vars

\* a first header with the flag and the value, then a header with neither
C17_Witness ==
    /\ IsSome(srid) /\ Len(hdrs) = 2
    /\ Flagged = {1} /\ FlaggedWithValue = {1}
    /\ last.ok /\ last.op \in SizedBegins

\* C18: in every reachable state, also after failed sink writes, the mode is
\* RingGeom or MultiPointGeom only with first_header cleared; a coordinate
\* callback that succeeds in MultiPoint mode appends a Point header without
\* the SRID flag and without the SRID value, then its values.
C18_PointStep ==
    (last'.op \in CoordOps /\ geom_state = "MultiPointGeom" /\ last'.ok) =>
        /\ out' = out \o RefHeader("Point", Cfg, FALSE) \o CoordBytes(last')
        /\ ~Bit(out'[Len(out) + 5], 32)

C18_ModeImpliesFlagCleared ==
    /\ [](geom_state # "Normal" => ~first_header)
    /\ [][C18_PointStep]_vars

\* with an SRID, in MultiPoint mode after a failed sink write, a Point
\* sub-header without the SRID flag is in the sink
C18_Witness ==
    /\ IsSome(srid) /\ geom_state = "MultiPointGeom" /\ ~first_header
    /\ nfails = 1
    /\ Len(hdrs) = 2 /\ ~Bit(FlagsByte(hdrs[2]), 32)

\* C19: a begin callback whose sink writes succeed returns Ok and the count
\* it has written, read back as a u32, is the size modulo 2^32: the size is
\* q * 2^32 + count for its high half q; the count is the size itself exactly
\* when the high half is zero, and a larger size is cut without an error.
C19_CountStep ==
    (last'.op \in SizedBegins /\ nfails' = nfails) =>
        LET written == Suffix(out', 4)
            count == IF endian = "BE" THEN written ELSE Rev(written)
            size == last'.size
        IN  /\ last'.ok
            /\ size = SubSeq(size, 1, 4) \o count
            /\ (<< 0, 0, 0, 0 >> \o count = size)
                 <=> (SubSeq(size, 1, 4) = << 0, 0, 0, 0 >>)

C19_CountIsSizeMod2p32 == [][C19_CountStep]_vars

\* polygon_begin with size 2^32 + 2 returned Ok and wrote the count 2
C19_Witness ==
    /\ last.op = "polygon_begin" /\ last.ok /\ last.size = BigSize
    /\ Suffix(out, 4) = << 2, 0, 0, 0 >>
    /\ geom_state = "RingGeom"

\* C20: polygon_begin, triangle_begin and multipoint_begin in which a sink
\* write fails (of the header or of the count) return the error and leave
\* the mode as it was; when no write fails they return Ok with the header and
\* the count in the sink and the mode set to RingGeom or MultiPointGeom.
C20_BeginStep ==
    last'.op \in {"polygon_begin", "triangle_begin", "multipoint_begin"} =>
        IF nfails' > nfails
        THEN /\ ~last'.ok
             /\ geom_state' = geom_state
        ELSE /\ last'.ok
             /\ out' = out \o Hdr(KindOf(last'.op)) \o RefCount(last'.size, endian)
             /\ geom_state' = (IF last'.op = "multipoint_begin"
                               THEN "MultiPointGeom" ELSE "RingGeom")

C20_ModeAfterWrites == [][C20_BeginStep]_vars

\* in MultiPoint mode, triangle_begin wrote its header and failed on the
\* count: the mode is still MultiPointGeom
C20_Witness ==
    /\ last.op = "triangle_begin" /\ ~last.ok
    /\ geom_state = "MultiPointGeom"
    /\ Len(hdrs) = 2 /\ Len(out) = hdrs[2] + 5

====
